---- MODULE Spec2Model ----
(***************************************************************************)
(* Offline_Pupil_Detection (pupil_src/shared_modules/pupil_producers.py):  *)
(* the orchestrator of the two eye-detection workers.  The object's        *)
(* attributes, the two persisted files, the receive queue of data_sub and  *)
(* the lifecycle requests in flight are the state; every method of the     *)
(* class is an operator from an object state to an object state, composed  *)
(* the way the methods call each other, and every entry point of the host  *)
(* (construction, recent_events, on_notify, the menu's controls, cleanup)  *)
(* is one action.                                                          *)
(***************************************************************************)
EXTENDS Integers, Sequences, FiniteSets, TLC

\* ------------------------------------------------------------------ bounds
MaxTs == 1          \* timestamps (frame indices) a worker stamps its data with
MaxBus == 1         \* messages waiting in data_sub's receive queue
MaxStore == 1       \* records held or about to be held by the store
MaxPending == 1     \* unanswered should_start / should_stop requests per eye
MaxFrames == 2      \* records held or about to be held where a worker may send
                    \* more of them than its video has frames

\* --------------------------------------------------------------- constants
session_data_version == 3

Eyes == {0, 1}
Other(e) == 1 - e
Both(x) == (0 :> x) @@ (1 :> x)
NoEye == 1 + 1          \* the eye field of an effect that concerns no eye
None == "None"
Methods == {"2d", "3d"}
DatumMethods == {"3d"}  \* the tag of the data the workers of this model emit
Unset == "unset"
Unknown == "unknown"
Detecting == "Detecting..."
Complete == "complete"
NoVideo == "No eye video found."
WorldLoc == "world.mp4"

\* existing_locs[0]: the first existing candidate of eye<id>.mjpeg/.mp4/.mkv
VideoLoc(eye_id) == IF eye_id = 0 THEN "eye0.mp4" ELSE "eye1.mp4"

VARIABLES
    phase,              \* "new" before __init__, "alive", "closed" after cleanup,
                        \* "failed" when __init__ raised
    video,              \* per eye: "none" (no file), "empty" (no frames), "ok"
    meta_file,          \* offline_data/offline_pupil.meta
    data_file,          \* offline_data/offline_pupil (the persisted store)
    data_file_ok,       \* FALSE while offline_pupil cannot be deserialized
    detection_method,
    detection_status,
    eye_video_loc,
    eye_frame_num,
    pupil_data_store,   \* self._pupil_data_store, ascending by timestamp
    pupil_positions,    \* g_pool.pupil_positions, the published snapshot
    aliased,            \* TRUE while g_pool.pupil_positions is the very object
                        \* self._pupil_data_store
    detection_paused,
    data_sub,           \* TRUE while the Msg_Receiver is held
    indicator_stop,     \* menu_icon.indicator_stop, a fraction <<num, den>>
    bus,                \* receive queue of data_sub
    should_start,       \* per eye: should_start requests not yet acknowledged
    should_stop,        \* per eye: should_stop requests not yet acknowledged
    running,            \* per eye: the worker process is up
    pub_count,          \* history: correlate_publish calls of this pass (0, 1, 2 = more)
    stale,              \* history: how many of the first messages of bus were sent
                        \*          before the latest redetect
    stale_stored,       \* history: records of the store that were such messages
    trace               \* history: the effects of the last handler, in program order

vars == <<phase, video, meta_file, data_file, data_file_ok, detection_method,
          detection_status, eye_video_loc, eye_frame_num, pupil_data_store,
          pupil_positions, aliased, detection_paused, data_sub, indicator_stop, bus,
          should_start, should_stop, running, pub_count, stale, stale_stored, trace>>

\* ------------------------------------------------------------ object state
\* The attributes a method reads and writes, as one record.
Self ==
    [detection_method |-> detection_method,
     detection_status |-> detection_status,
     eye_video_loc |-> eye_video_loc,
     eye_frame_num |-> eye_frame_num,
     pupil_data_store |-> pupil_data_store,
     pupil_positions |-> pupil_positions,
     aliased |-> aliased,
     detection_paused |-> detection_paused,
     data_sub |-> data_sub,
     indicator_stop |-> indicator_stop,
     meta_file |-> meta_file,
     data_file |-> data_file,
     data_file_ok |-> data_file_ok,
     bus |-> bus,
     should_start |-> should_start,
     should_stop |-> should_stop,
     pub_count |-> pub_count,
     stale |-> stale,
     stale_stored |-> stale_stored,
     raised |-> FALSE,
     trace |-> <<>>]

\* One effect of a handler, with the attributes as they are when it happens.
Ev(s, op, eye, path, mode) ==
    [op |-> op, eye |-> eye, path |-> path, mode |-> mode,
     method |-> s.detection_method,
     status |-> s.detection_status,
     locs |-> s.eye_video_loc,
     sub |-> s.data_sub]

Log(s, op, eye, path, mode) ==
    [s EXCEPT !.trace = Append(@, Ev(s, op, eye, path, mode))]

\* Plugin.notify_all: the notification leaves on the IPC backbone; the two
\* lifecycle requests stay in flight until the eye process answers them.
notify_all(s, subject, eye, path, mode) ==
    LET t == Log(s, subject, eye, path, mode)
    IN  IF subject = "eye_process.should_start"
        THEN [t EXCEPT !.should_start[eye] = @ + 1]
        ELSE IF subject = "eye_process.should_stop"
        THEN [t EXCEPT !.should_stop[eye] = @ + 1]
        ELSE t
\* ------------------------------------------------------- PupilDataBisector
\* A datum: [id, timestamp, method].
RECURSIVE InsertByTs(_, _)
InsertByTs(data, datum) ==
    IF data = <<>> THEN <<datum>>
    ELSE IF Head(data).timestamp > datum.timestamp THEN <<datum>> \o data
    ELSE <<Head(data)>> \o InsertByTs(Tail(data), datum)

StoreAppend(data, datum) == InsertByTs(data, datum)
StoreSelect(data, eye_id, method) ==
    SelectSeq(data, LAMBDA d: d.id = eye_id /\ d.method = method)
StoreSelectMethod(data, method) == SelectSeq(data, LAMBDA d: d.method = method)
StoreCopy(data) == data
StoreClear(data) == <<>>
load_from_file(file) == file
save_to_file(data) == data

\* What reading a file raises ("" when it returns): fm.load_object on the
\* metadata, PupilDataBisector.load_from_file on the results, for which a
\* missing file is an empty store.
load_object_raises(file) ==
    IF file.kind = "absent" THEN "FileNotFoundError"
    ELSE IF file.kind = "corrupt" THEN "CorruptData"
    ELSE ""
load_from_file_raises(ok) == IF ok THEN "" ELSE "CorruptData"

\* An exception leaves the method, and every caller up to the host.
Raise(s, exception) ==
    [Log(s, exception, NoEye, None, "") EXCEPT !.raised = TRUE]

\* self._pupil_data_store changed in place: whoever holds the same object
\* sees the change.
Mutate(s, data) ==
    [s EXCEPT !.pupil_data_store = data,
              !.pupil_positions = IF s.aliased THEN data ELSE @]

\* ------------------------------------------------------------- the methods
\* save_offline_data
save_offline_data(s) ==
    LET t == [s EXCEPT !.data_file = save_to_file(s.pupil_data_store),
                       !.data_file_ok = TRUE,
                       !.meta_file = [kind |-> "ok",
                                      version |-> session_data_version,
                                      detection_method |-> s.detection_method,
                                      detection_status |-> s.detection_status]]
    IN  Log(t, "save_offline_data", NoEye, None, s.detection_method)

\* correlate_publish
correlate_publish_alias(s) ==
    LET s0 == Log(s, "correlate_publish", NoEye, None, "")
        s1 == [s0 EXCEPT !.pupil_positions = s0.pupil_data_store,
                         !.aliased = TRUE,
                         !.pub_count = IF @ < 2 THEN @ + 1 ELSE @]
        s2 == Log(s1, "announce_new", NoEye, None, "")
    IN  save_offline_data(s2)

correlate_publish(s) ==
    LET s0 == Log(s, "correlate_publish", NoEye, None, "")
        s1 == [s0 EXCEPT !.pupil_positions = StoreCopy(s0.pupil_data_store),
                         !.aliased = FALSE,
                         !.pub_count = IF @ < 2 THEN @ + 1 ELSE @]
        s2 == Log(s1, "announce_new", NoEye, None, "")
    IN  save_offline_data(s2)

\* stop_eye_process
stop_eye_process_if_active(s, eye_id) ==
    IF s.eye_video_loc[eye_id] = None THEN s
    ELSE LET s1 == notify_all(s, "eye_process.should_stop", eye_id, None, "")
         IN  [s1 EXCEPT !.eye_video_loc[eye_id] = None]

stop_eye_process(s, eye_id) ==
    LET s1 == notify_all(s, "eye_process.should_stop", eye_id, None, "")
    IN  [s1 EXCEPT !.eye_video_loc[eye_id] = None]

\* start_eye_process
start_eye_process_no_empty_check(s, eye_id) ==
    LET s0 == Log(s, "start_eye_process", eye_id, None, "")
    IN  IF video[eye_id] = "none"
        THEN [s0 EXCEPT !.detection_status[eye_id] = NoVideo]
        ELSE LET s1 == [s0 EXCEPT !.eye_frame_num[eye_id] = MaxTs]
                 s2 == notify_all(s1, "eye_process.should_start", eye_id,
                                  VideoLoc(eye_id), "")
                 s3 == [s2 EXCEPT !.eye_video_loc[eye_id] = VideoLoc(eye_id)]
             IN  [s3 EXCEPT !.detection_status[eye_id] = Detecting]

start_eye_process(s, eye_id) ==
    LET s0 == Log(s, "start_eye_process", eye_id, None, "")
    IN  IF video[eye_id] = "none"
        THEN [s0 EXCEPT !.detection_status[eye_id] = NoVideo]
        ELSE IF video[eye_id] = "empty"
        THEN [s0 EXCEPT !.detection_status[eye_id] = NoVideo]
        ELSE LET s1 == [s0 EXCEPT !.eye_frame_num[eye_id] = MaxTs]
                 s2 == notify_all(s1, "eye_process.should_start", eye_id,
                                  VideoLoc(eye_id), "")
                 s3 == [s2 EXCEPT !.eye_video_loc[eye_id] = VideoLoc(eye_id)]
             IN  [s3 EXCEPT !.detection_status[eye_id] = Detecting]

\* detection_progress
detection_progress_unclamped(s) ==
    LET total == s.eye_frame_num[0] + s.eye_frame_num[1]
        n == Len(StoreSelectMethod(s.pupil_data_store, s.detection_method))
    IN  IF total # 0
        THEN <<n, total>>
        ELSE <<0, 1>>

detection_progress(s) ==
    LET total == s.eye_frame_num[0] + s.eye_frame_num[1]
        n == Len(StoreSelectMethod(s.pupil_data_store, s.detection_method))
    IN  IF total # 0
        THEN IF n >= total THEN <<1, 1>> ELSE <<n, total>>
        ELSE <<0, 1>>

\* detection_paused.setter
PauseEye_unconditional(s, eye_id, should_pause) ==
    notify_all(s, IF should_pause THEN "file_source.should_pause"
                                  ELSE "file_source.should_play",
               NoEye, s.eye_video_loc[eye_id], "")

PauseEye(s, eye_id, should_pause) ==
    IF s.eye_video_loc[eye_id] # None
    THEN notify_all(s, IF should_pause THEN "file_source.should_pause"
                                         ELSE "file_source.should_play",
                    NoEye, s.eye_video_loc[eye_id], "")
    ELSE s

set_detection_paused(s, should_pause) ==
    LET s0 == [s EXCEPT !.detection_paused = should_pause]
    IN  PauseEye(PauseEye(s0, 0, should_pause), 1, should_pause)

\* redetect.  Clearing the store leaves the messages already queued in
\* data_sub where they are: all of them were sent before this redetect.
RedetectEye(s, eye_id) ==
    IF s.eye_video_loc[eye_id] = None
    THEN start_eye_process(s, eye_id)
    ELSE notify_all(s, "file_source.seek", NoEye, s.eye_video_loc[eye_id], "0")

redetect_seek_only(s) ==
    LET s0 == Log(s, "redetect", NoEye, None, "")
        s1 == [Mutate(s0, StoreClear(s0.pupil_data_store))
                  EXCEPT !.stale = Len(s0.bus), !.stale_stored = 0]
        s2 == [s1 EXCEPT !.pupil_positions = StoreCopy(s1.pupil_data_store),
                         !.aliased = FALSE,
                         !.pub_count = 0]
        s3 == Log(s2, "announce_new", NoEye, None, "")
        s4 == set_detection_paused(s3, FALSE)
        Seek(u, eye_id) ==
            IF u.eye_video_loc[eye_id] = None THEN u
            ELSE notify_all(u, "file_source.seek", NoEye, u.eye_video_loc[eye_id], "0")
    IN  Seek(Seek(s4, 0), 1)

redetect(s) ==
    LET s0 == Log(s, "redetect", NoEye, None, "")
        s1 == [Mutate(s0, StoreClear(s0.pupil_data_store))
                  EXCEPT !.stale = Len(s0.bus), !.stale_stored = 0]
        s2 == [s1 EXCEPT !.pupil_positions = StoreCopy(s1.pupil_data_store),
                         !.aliased = FALSE,
                         !.pub_count = 0]
        s3 == Log(s2, "announce_new", NoEye, None, "")
        s4 == set_detection_paused(s3, FALSE)
    IN  RedetectEye(RedetectEye(s4, 0), 1)

\* set_detection_mapping_mode
set_detection_mapping_mode_early(s, new_mode) ==
    LET s1 == notify_all(s, "set_detection_mapping_mode", NoEye, None, new_mode)
        s2 == [s1 EXCEPT !.detection_method = new_mode]
        s3 == redetect(s2)
    IN  Log(s3, "detection_method=", NoEye, None, new_mode)

set_detection_mapping_mode(s, new_mode) ==
    LET s1 == notify_all(s, "set_detection_mapping_mode", NoEye, None, new_mode)
        s2 == redetect(s1)
        s3 == [s2 EXCEPT !.detection_method = new_mode]
    IN  Log(s3, "detection_method=", NoEye, None, new_mode)
\* recent_events: the loop body for a finished video (lines 359-368)
MarkComplete_keep_source(s, eyeid) ==
    LET s1 == [s EXCEPT !.detection_status[eyeid] = Complete]
    IN  notify_all(Log(s1, "complete", eyeid, s.eye_video_loc[eyeid], ""),
                   "eye_process.should_stop", eyeid, None, "")

MarkComplete(s, eyeid) ==
    LET s1 == [s EXCEPT !.detection_status[eyeid] = Complete]
    IN  stop_eye_process(Log(s1, "complete", eyeid, s.eye_video_loc[eyeid], ""), eyeid)

video_finished_publish_each(s, source_path) ==
    LET s1 == IF s.eye_video_loc[0] = source_path THEN MarkComplete(s, 0)
              ELSE IF s.eye_video_loc[1] = source_path THEN MarkComplete(s, 1)
              ELSE s
    IN  IF s1.eye_video_loc # s.eye_video_loc
        THEN correlate_publish(s1)
        ELSE s1

video_finished(s, source_path) ==
    LET s1 == IF s.eye_video_loc[0] = source_path THEN MarkComplete(s, 0)
              ELSE IF s.eye_video_loc[1] = source_path THEN MarkComplete(s, 1)
              ELSE s
    IN  IF s1.eye_video_loc = Both(None)
        THEN correlate_publish(s1)
        ELSE s1

\* recent_events: the loop body for a datum (lines 351-357)
pupil_datum_unchecked(s, msg) ==
    [Mutate(s, StoreAppend(s.pupil_data_store,
                           [id |-> msg.id, timestamp |-> msg.timestamp,
                            method |-> msg.method]))
        EXCEPT !.stale_stored = IF s.stale > 0 THEN @ + 1 ELSE @]

pupil_datum(s, msg) ==
    IF msg.topic # msg.id
    THEN [Log(s, "AssertionError", msg.topic, None, "") EXCEPT !.raised = TRUE]
    ELSE [Mutate(s, StoreAppend(s.pupil_data_store,
                                [id |-> msg.id, timestamp |-> msg.timestamp,
                                 method |-> msg.method]))
            EXCEPT !.stale_stored = IF s.stale > 0 THEN @ + 1 ELSE @]

\* recent_events: while self.data_sub.new_data
RECURSIVE drain(_)
drain(s) ==
    IF s.bus = <<>> \/ s.raised THEN s
    ELSE LET msg == Head(s.bus)
             s0 == Log([s EXCEPT !.bus = Tail(@)], "recv", msg.topic, msg.source_path,
                       msg.kind)
             s1 == IF msg.kind = "pupil" THEN pupil_datum(s0, msg)
                   ELSE video_finished(s0, msg.source_path)
         IN  drain([s1 EXCEPT !.stale = IF @ > 0 THEN @ - 1 ELSE 0])

recent_events(s) ==
    LET d == drain(Log(s, "recent_events", NoEye, None, ""))
    IN  IF d.raised THEN d
        ELSE [d EXCEPT !.indicator_stop = detection_progress(d)]

\* on_notify
on_notify(s, subject, eye_id) ==
    LET s0 == Log(s, "on_notify", eye_id, None, subject)
    IN  IF subject = "eye_process.started"
        THEN set_detection_mapping_mode(s0, s0.detection_method)
        ELSE IF subject = "eye_process.stopped"
        THEN [s0 EXCEPT !.eye_video_loc[eye_id] = None]
        ELSE s0

\* cleanup
cleanup_save_first(s) ==
    LET s0 == Log(s, "cleanup", NoEye, None, "")
        s1 == stop_eye_process(stop_eye_process(s0, 0), 1)
        s2 == save_offline_data(s1)
    IN  Log([s2 EXCEPT !.data_sub = FALSE], "data_sub=None", NoEye, None, "")

cleanup(s) ==
    LET s0 == Log(s, "cleanup", NoEye, None, "")
        s1 == stop_eye_process(stop_eye_process(s0, 0), 1)
        s2 == Log([s1 EXCEPT !.data_sub = FALSE], "data_sub=None", NoEye, None, "")
    IN  save_offline_data(s2)

\* __init__: the persisted metadata as lines 261-268 leave it
DefaultMeta == [detection_method |-> Unset, detection_status |-> Both(Unknown)]

load_session_meta_data_merging(file) ==
    IF file.kind = "ok"
    THEN [detection_method |-> Unset, detection_status |-> file.detection_status]
    ELSE DefaultMeta

load_session_meta_data(file) ==
    IF file.kind = "ok" /\ file.version = session_data_version
    THEN [detection_method |-> file.detection_method,
          detection_status |-> file.detection_status]
    ELSE DefaultMeta

\* __init__: for eye_id in range(2): start what is not complete (lines 290-292)
InitEye(s, eye_id) ==
    IF s.detection_status[eye_id] # Complete THEN start_eye_process(s, eye_id) ELSE s

init_publish_unless_both_started(s) ==
    LET session_meta_data == load_session_meta_data(s.meta_file)
        s0 == [s EXCEPT !.data_sub = TRUE]
        s1 == [s0 EXCEPT !.trace = <<[Ev(s0, "load_object", NoEye, None,
                                         session_meta_data.detection_method)
                                      EXCEPT !.status = session_meta_data.detection_status]>>]
        s2 == [s1 EXCEPT !.detection_method = "3d",
                         !.detection_status = session_meta_data.detection_status,
                         !.pupil_data_store = load_from_file(s.data_file),
                         !.eye_video_loc = Both(None)]
        s3 == [s2 EXCEPT !.eye_frame_num =
                    (0 :> Len(StoreSelect(s2.pupil_data_store, 0, s2.detection_method)))
                    @@ (1 :> Len(StoreSelect(s2.pupil_data_store, 1, s2.detection_method)))]
        s4 == set_detection_paused(s3, FALSE)
        s5 == InitEye(InitEye(s4, 0), 1)
    IN  IF load_object_raises(s.meta_file) \notin {"", "FileNotFoundError"}
        THEN Raise(s1, load_object_raises(s.meta_file))
        ELSE IF load_from_file_raises(s.data_file_ok) # ""
        THEN Raise([s1 EXCEPT !.detection_method = "3d",
                              !.detection_status = session_meta_data.detection_status],
                   load_from_file_raises(s.data_file_ok))
        ELSE IF s5.eye_video_loc[0] = None \/ s5.eye_video_loc[1] = None
        THEN correlate_publish(s5)
        ELSE s5

\* __init__
init(s) ==
    LET session_meta_data == load_session_meta_data(s.meta_file)
        s0 == [s EXCEPT !.data_sub = TRUE]
        s1 == [s0 EXCEPT !.trace = <<[Ev(s0, "load_object", NoEye, None,
                                         session_meta_data.detection_method)
                                      EXCEPT !.status = session_meta_data.detection_status]>>]
        s2 == [s1 EXCEPT !.detection_method = "3d",
                         !.detection_status = session_meta_data.detection_status,
                         !.pupil_data_store = load_from_file(s.data_file),
                         !.eye_video_loc = Both(None)]
        s3 == [s2 EXCEPT !.eye_frame_num =
                    (0 :> Len(StoreSelect(s2.pupil_data_store, 0, s2.detection_method)))
                    @@ (1 :> Len(StoreSelect(s2.pupil_data_store, 1, s2.detection_method)))]
        s4 == set_detection_paused(s3, FALSE)
        s5 == InitEye(InitEye(s4, 0), 1)
    IN  IF load_object_raises(s.meta_file) \notin {"", "FileNotFoundError"}
        THEN Raise(s1, load_object_raises(s.meta_file))
        ELSE IF load_from_file_raises(s.data_file_ok) # ""
        THEN Raise([s1 EXCEPT !.detection_method = "3d",
                              !.detection_status = session_meta_data.detection_status],
                   load_from_file_raises(s.data_file_ok))
        ELSE IF s5.eye_video_loc = Both(None)
        THEN correlate_publish(s5)
        ELSE s5
\* ------------------------------------------------------------------- Init
Absent ==
    [kind |-> "absent", version |-> 0, detection_method |-> Unset,
     detection_status |-> Both(Unknown)]

\* Whatever an earlier session, of this version or the one before, can have
\* left in offline_pupil.meta and offline_pupil.
PersistedMetas ==
    {Absent} \cup
    [kind : {"ok"},
     version : {session_data_version - 1, session_data_version},
     detection_method : Methods,
     detection_status : [Eyes -> {Unknown, Complete}]]

FileDatum(eye_id) == [id |-> eye_id, timestamp |-> 1, method |-> "3d"]
PersistedData == {<<>>, <<FileDatum(0), FileDatum(1)>>}

\* What a session of this version leaves: nothing before the first one; after
\* one, its results and the status of each eye.
SessionFiles ==
    {<<Absent, <<>>>>} \cup
    {<<[kind |-> "ok", version |-> session_data_version, detection_method |-> "3d",
        detection_status |-> st], <<FileDatum(0), FileDatum(1)>>>> :
        st \in [Eyes -> {Unknown, Complete}] \ {Both(Unknown)}}

\* The object before __init__ has run.
Blank ==
    /\ phase = "new"
    /\ detection_method = Unset
    /\ detection_status = Both(Unknown)
    /\ eye_video_loc = Both(None)
    /\ eye_frame_num = Both(0)
    /\ pupil_data_store = <<>>
    /\ pupil_positions = <<>>
    /\ aliased = FALSE
    /\ detection_paused = FALSE
    /\ data_sub = FALSE
    /\ indicator_stop = <<0, 1>>
    /\ bus = <<>>
    /\ should_start = Both(0)
    /\ should_stop = Both(0)
    /\ running = Both(FALSE)
    /\ pub_count = 0
    /\ stale = 0
    /\ stale_stored = 0
    /\ trace = <<>>

Init ==
    /\ video \in [Eyes -> {"none", "empty", "ok"}]
    /\ \E files \in SessionFiles : meta_file = files[1] /\ data_file = files[2]
    /\ data_file_ok = TRUE
    /\ Blank

InitAny ==
    /\ video \in [Eyes -> {"none", "empty", "ok"}]
    /\ meta_file \in PersistedMetas
    /\ data_file \in PersistedData
    /\ data_file_ok = TRUE
    /\ Blank

\* A metadata file that cannot be deserialized; and, with data_file_ok
\* FALSE, a results file that cannot.
Corrupt ==
    [kind |-> "corrupt", version |-> 0, detection_method |-> Unset,
     detection_status |-> Both(Unknown)]

InitCorrupt ==
    /\ video \in [Eyes -> {"none", "empty", "ok"}]
    /\ meta_file \in PersistedMetas \cup {Corrupt}
    /\ data_file \in PersistedData
    /\ data_file_ok \in BOOLEAN
    /\ Blank

\* ---------------------------------------------------------------- actions
\* The handler's result becomes the object; it is taken only while the
\* requests in flight stay within MaxPending.
Install(t) ==
    /\ \A e \in Eyes : t.should_start[e] <= MaxPending /\ t.should_stop[e] <= MaxPending
    /\ detection_method' = t.detection_method
    /\ detection_status' = t.detection_status
    /\ eye_video_loc' = t.eye_video_loc
    /\ eye_frame_num' = t.eye_frame_num
    /\ pupil_data_store' = t.pupil_data_store
    /\ pupil_positions' = t.pupil_positions
    /\ aliased' = t.aliased
    /\ detection_paused' = t.detection_paused
    /\ data_sub' = t.data_sub
    /\ indicator_stop' = t.indicator_stop
    /\ meta_file' = t.meta_file
    /\ data_file' = t.data_file
    /\ data_file_ok' = t.data_file_ok
    /\ bus' = t.bus
    /\ should_start' = t.should_start
    /\ should_stop' = t.should_stop
    /\ pub_count' = t.pub_count
    /\ stale' = t.stale
    /\ stale_stored' = t.stale_stored
    /\ trace' = t.trace

\* A constructor that raises leaves no object behind.
Construct ==
    /\ phase = "new"
    /\ Install(init(Self))
    /\ phase' = IF init(Self).raised THEN "failed" ELSE "alive"
    /\ UNCHANGED <<video, running>>

RecentEvents ==
    /\ phase = "alive"
    /\ Install(recent_events(Self))
    /\ UNCHANGED <<phase, video, running>>

\* The eye process answers a should_start: it is up, and the host hands its
\* "eye_process.started" to on_notify.
OnNotifyStarted(eye_id) ==
    /\ phase = "alive"
    /\ should_start[eye_id] > 0
    /\ Install(on_notify([Self EXCEPT !.should_start[eye_id] = @ - 1],
                         "eye_process.started", eye_id))
    /\ running' = [running EXCEPT ![eye_id] = TRUE]
    /\ UNCHANGED <<phase, video>>

\* A running eye process answers a should_stop: it exits, and the host hands
\* its "eye_process.stopped" to on_notify.
OnNotifyStopped(eye_id) ==
    /\ phase = "alive"
    /\ running[eye_id]
    /\ should_stop[eye_id] > 0
    /\ Install(on_notify([Self EXCEPT !.should_stop[eye_id] = @ - 1],
                         "eye_process.stopped", eye_id))
    /\ running' = [running EXCEPT ![eye_id] = FALSE]
    /\ UNCHANGED <<phase, video>>

\* The menu: the Redetect button, the pause switch; set_detection_mapping_mode
\* as a caller of the class uses it.
Redetect ==
    /\ phase = "alive"
    /\ Install(redetect(Self))
    /\ UNCHANGED <<phase, video, running>>

SetDetectionMappingMode(new_mode) ==
    /\ phase = "alive"
    /\ Install(set_detection_mapping_mode(
                   Log(Self, "set_detection_mapping_mode()", NoEye, None, new_mode),
                   new_mode))
    /\ UNCHANGED <<phase, video, running>>

SetDetectionPaused(should_pause) ==
    /\ phase = "alive"
    /\ Install(set_detection_paused(
                   Log(Self, "detection_paused=", NoEye, None, ""), should_pause))
    /\ UNCHANGED <<phase, video, running>>

Cleanup ==
    /\ phase = "alive"
    /\ Install(cleanup(Self))
    /\ phase' = "closed"
    /\ UNCHANGED <<video, running>>

\* The workers and the world video, on the bus data_sub listens to.
NData(q) == Len(SelectSeq(q, LAMBDA m : m.kind = "pupil"))

Post(msg) ==
    /\ data_sub
    /\ Len(bus) < MaxBus
    /\ bus' = Append(bus, msg)
    /\ trace' = <<>>
    /\ UNCHANGED <<phase, video, meta_file, data_file, data_file_ok, detection_method,
                   detection_status, eye_video_loc, eye_frame_num, pupil_data_store,
                   pupil_positions, aliased, detection_paused, data_sub, indicator_stop,
                   should_start, should_stop, running, pub_count, stale, stale_stored>>

EyeEmitsDatum(eye_id, ts, method) ==
    /\ running[eye_id]
    /\ Len(pupil_data_store) + NData(bus) < MaxStore
    /\ Post([kind |-> "pupil", topic |-> eye_id, id |-> eye_id, timestamp |-> ts,
             method |-> method, source_path |-> None])

\* A worker that goes on sending: after a seek it sends its frames again.
EyeEmitsFrame(eye_id, ts, method) ==
    /\ running[eye_id]
    /\ Len(pupil_data_store) + NData(bus) < MaxFrames
    /\ Post([kind |-> "pupil", topic |-> eye_id, id |-> eye_id, timestamp |-> ts,
             method |-> method, source_path |-> None])

\* A datum that arrives under the topic of the other eye.
EyeEmitsMisattributed(eye_id, ts, method) ==
    /\ running[eye_id]
    /\ Post([kind |-> "pupil", topic |-> Other(eye_id), id |-> eye_id, timestamp |-> ts,
             method |-> method, source_path |-> None])

EyeVideoFinished(eye_id) ==
    /\ running[eye_id]
    /\ Post([kind |-> "notify", topic |-> NoEye, id |-> NoEye, timestamp |-> 0,
             method |-> "", source_path |-> VideoLoc(eye_id)])

WorldVideoFinished ==
    /\ Post([kind |-> "notify", topic |-> NoEye, id |-> NoEye, timestamp |-> 0,
             method |-> "", source_path |-> WorldLoc])

\* A session: construction, the host's ticks and notifications, the Redetect
\* button, teardown, and what the workers and the world video put on the bus.
Next ==
    \/ Construct
    \/ RecentEvents
    \/ \E e \in Eyes : OnNotifyStarted(e)
    \/ \E e \in Eyes : OnNotifyStopped(e)
    \/ Redetect
    \/ Cleanup
    \/ \E e \in Eyes, ts \in 1..MaxTs, m \in DatumMethods : EyeEmitsDatum(e, ts, m)
    \/ \E e \in Eyes : EyeVideoFinished(e)
    \/ WorldVideoFinished

Spec == Init /\ [][Next]_vars

\* Construction and teardown over every content of the two files.
NextConstruct ==
    \/ Construct
    \/ Cleanup

SpecConstruct == InitAny /\ [][NextConstruct]_vars

\* A session in which the detection method is changed as well.
NextMode ==
    \/ Next
    \/ \E m \in Methods : SetDetectionMappingMode(m)

SpecMode == Init /\ [][NextMode]_vars

\* A session on a bus that can deliver a datum under the wrong topic.
NextProtocol ==
    \/ Next
    \/ \E e \in Eyes, ts \in 1..MaxTs, m \in DatumMethods : EyeEmitsMisattributed(e, ts, m)

SpecProtocol == Init /\ [][NextProtocol]_vars

\* A session in which a worker can send more records than its video has
\* frames.
NextFrames ==
    \/ Construct
    \/ RecentEvents
    \/ \E e \in Eyes : OnNotifyStarted(e)
    \/ \E e \in Eyes : OnNotifyStopped(e)
    \/ Redetect
    \/ Cleanup
    \/ \E e \in Eyes, ts \in 1..MaxTs, m \in DatumMethods : EyeEmitsFrame(e, ts, m)
    \/ \E e \in Eyes : EyeVideoFinished(e)

SpecFrames == Init /\ [][NextFrames]_vars

\* A session in which the pause switch is used as well.
NextPause ==
    \/ Next
    \/ \E should_pause \in BOOLEAN : SetDetectionPaused(should_pause)

SpecPause == Init /\ [][NextPause]_vars

\* A session left to itself: no control of the menu is used and the object is
\* not torn down.  A worker that is up reaches the end of its video and says
\* so.  That the host keeps calling recent_events and hands over the
\* notifications of the eye processes is what the claims about such a session
\* assume, and is stated with them.
NextLive ==
    \/ Construct
    \/ RecentEvents
    \/ \E e \in Eyes : OnNotifyStarted(e)
    \/ \E e \in Eyes : OnNotifyStopped(e)
    \/ \E e \in Eyes, ts \in 1..MaxTs, m \in DatumMethods : EyeEmitsDatum(e, ts, m)
    \/ \E e \in Eyes : EyeVideoFinished(e)

SpecLive ==
    /\ Init
    /\ [][NextLive]_vars
    /\ \A e \in Eyes : WF_vars(EyeVideoFinished(e))

\* Construction and teardown over files that may not be readable.
SpecCorrupt == InitCorrupt /\ [][NextConstruct]_vars
\* ------------------------------------------------------------------ claims
\* Reading the effects of the last handler.
Handler == IF trace = <<>> THEN "" ELSE trace[1].op
Where(op) == {i \in DOMAIN trace : trace[i].op = op}
WhereEye(op, eye) == {i \in DOMAIN trace : trace[i].op = op /\ trace[i].eye = eye}
WherePath(op, path) == {i \in DOMAIN trace : trace[i].op = op /\ trace[i].path = path}
\* The effects of handling the message received at trace[i - 1]: up to the
\* next message, or to the end of the handler.
Until(i) ==
    LET later == {j \in DOMAIN trace : j > i /\ trace[j].op = "recv"}
    IN  {j \in DOMAIN trace : j > i /\ \A k \in later : j < k}

\* C1: correlate_publish runs at most once between the start of a detection
\* pass (construction, a redetect) and the start of the next one, whatever
\* messages recent_events drains.
C1_PublishOncePerPass == pub_count <= 1

\* C2: no record held by the store was sent before the latest redetect; a
\* datum still queued when the store is cleared is not accumulated afterwards.
C2_NoStaleRecord == stale_stored = 0

\* C3: a finished video marks its own eye complete and nothing of the other
\* eye; while the other eye still has a source path nothing is published, and
\* when the other eye has none the publish follows, whichever eye comes first.
C3_CompletionOrderIndependent ==
    \A i \in Where("complete") :
        LET e == trace[i].eye
            o == Other(trace[i].eye)
        IN  /\ trace[i - 1].op = "recv"
            /\ trace[i].status[e] = Complete
            /\ trace[i].status[o] = trace[i - 1].status[o]
            /\ trace[i].locs[o] = trace[i - 1].locs[o]
            /\ trace[i].locs[o] # None =>
                  \A j \in Until(i) : /\ trace[j].op # "correlate_publish"
                                      /\ trace[j].locs[o] = trace[i].locs[o]
                                      /\ trace[j].status[o] = trace[i].status[o]
            /\ trace[i].locs[o] = None =>
                  Cardinality({j \in Until(i) : trace[j].op = "correlate_publish"}) = 1

\* Eye 1 finished while eye 0 was detecting and nothing was published; now eye
\* 0's video has finished as well and the publish has followed.
C3_Witness ==
    /\ Handler = "recent_events"
    /\ \E i \in WhereEye("complete", 0) :
          /\ trace[i].status[1] = Complete
          /\ trace[i].locs[1] = None
          /\ \E j \in Until(i) : trace[j].op = "correlate_publish"
    /\ running = Both(TRUE)
    /\ pub_count = 1

\* C4: set_detection_mapping_mode(new_mode) broadcasts the new mode first, then
\* redetects (store cleared, empty snapshot published and announced, each eye
\* restarted or sought to frame 0), and assigns detection_method last; every
\* effect before the assignment sees the old detection_method.
SetModeAt ==
    IF Handler = "set_detection_mapping_mode()" \/
       (Handler = "on_notify" /\ trace[1].mode = "eye_process.started")
    THEN 2 ELSE 0

C4_SetModeOrder ==
    SetModeAt # 0 =>
        LET new_mode == trace[2].mode
            old == trace[1].method
            n == Len(trace)
        IN  /\ trace[2].op = "set_detection_mapping_mode"
            /\ trace[3].op = "redetect"
            /\ trace[4].op = "announce_new"
            /\ trace[n].op = "detection_method="
            /\ trace[n].mode = new_mode
            /\ Where("detection_method=") = {n}
            /\ \A i \in 1..(n - 1) : trace[i].method = old
            /\ detection_method = new_mode
            /\ pupil_data_store = <<>>
            /\ pupil_positions = <<>>
            /\ \A e \in Eyes :
                  LET starts == {i \in WhereEye("start_eye_process", e) : 4 < i /\ i < n}
                      seeks == {i \in WherePath("file_source.seek", VideoLoc(e)) :
                                   4 < i /\ i < n /\ trace[i].mode = "0"}
                  IN  Cardinality(starts) + Cardinality(seeks) = 1

\* The method goes from "3d" to "2d"; eye 0, which is detecting, is sought to
\* frame 0 and eye 1, which has no source path, is started.
C4_Witness ==
    /\ Handler = "set_detection_mapping_mode()"
    /\ trace[1].method = "3d"
    /\ trace[1].mode = "2d"
    /\ detection_method = "2d"
    /\ WherePath("file_source.seek", VideoLoc(0)) # {}
    /\ WhereEye("eye_process.should_start", 1) # {}
\* C5: after redetect the store is empty, the published set is an empty
\* snapshot and the change was announced, no eye is left "complete", and each
\* eye got exactly one of: a start attempt (it had no source path) or a seek
\* to frame 0 of its source path.
RedetectAt ==
    IF Handler = "redetect" THEN 1
    ELSE IF SetModeAt # 0 THEN 3
    ELSE 0

C5_RedetectResets ==
    RedetectAt # 0 =>
        LET r == RedetectAt
            before == trace[RedetectAt].locs
        IN  /\ trace[r].op = "redetect"
            /\ trace[r + 1].op = "announce_new"
            /\ pupil_data_store = <<>>
            /\ pupil_positions = <<>>
            /\ pub_count = 0
            /\ \A e \in Eyes :
                  LET starts == {i \in WhereEye("start_eye_process", e) : i > r}
                      seeks == {i \in Where("file_source.seek") :
                                   /\ i > r
                                   /\ trace[i].path = VideoLoc(e)
                                   /\ trace[i].mode = "0"}
                  IN  /\ detection_status[e] # Complete
                      /\ before[e] = None =>
                            Cardinality(starts) = 1 /\ seeks = {}
                      /\ before[e] # None =>
                            /\ Cardinality(seeks) = 1 /\ starts = {}
                            /\ before[e] = VideoLoc(e)
                            /\ eye_video_loc[e] = before[e]

\* The Redetect button with eye 0 detecting and eye 1 complete: eye 0 is
\* sought to frame 0 and eye 1 is started again.
C5_Witness ==
    /\ Handler = "redetect"
    /\ trace[1].locs[0] = VideoLoc(0)
    /\ trace[1].status[1] = Complete
    /\ WherePath("file_source.seek", VideoLoc(0)) # {}
    /\ WhereEye("eye_process.should_start", 1) # {}
    /\ detection_status = Both(Detecting)

\* C6 as stated: cleanup saves before it gives up data_sub, so the save
\* happens while the connection is still held.
C6_SaveBeforeRelease ==
    Handler = "cleanup" =>
        \A i \in Where("save_offline_data") : trace[i].sub

\* C6 as the code has it: cleanup asks both eyes to stop, whatever their
\* state, while data_sub is held, then gives up data_sub, then saves the
\* results and the metadata of the final state.
C6_StopReleaseSave ==
    Handler = "cleanup" =>
        /\ [i \in DOMAIN trace |-> trace[i].op] =
              <<"cleanup", "eye_process.should_stop", "eye_process.should_stop",
                "data_sub=None", "save_offline_data">>
        /\ trace[2].eye = 0 /\ trace[2].sub
        /\ trace[3].eye = 1 /\ trace[3].sub
        /\ ~trace[5].sub
        /\ ~data_sub
        /\ eye_video_loc = Both(None)
        /\ data_file = pupil_data_store
        /\ meta_file = [kind |-> "ok", version |-> session_data_version,
                        detection_method |-> detection_method,
                        detection_status |-> detection_status]

\* Teardown in the middle of a detection, with a record in the store.
C6_Witness ==
    /\ Handler = "cleanup"
    /\ phase = "closed"
    /\ pupil_data_store # <<>>
    /\ data_file = pupil_data_store
    /\ \E e \in Eyes : detection_status[e] = Detecting

\* C7: construction starts every eye that is not complete and has a usable
\* video, and publishes if and only if no eye ended up with a source path.
C7_ConstructPublishesIffIdle ==
    Handler = "load_object" =>
        /\ (Where("correlate_publish") # {}) <=> (eye_video_loc = Both(None))
        /\ Cardinality(Where("correlate_publish")) <= 1
        /\ \A e \in Eyes :
              IF trace[1].status[e] # Complete /\ video[e] = "ok"
              THEN /\ eye_video_loc[e] = VideoLoc(e)
                   /\ detection_status[e] = Detecting
                   /\ Cardinality(WhereEye("eye_process.should_start", e)) = 1
              ELSE /\ eye_video_loc[e] = None
                   /\ WhereEye("eye_process.should_start", e) = {}

\* Eye 0 was started, eye 1 has no video: construction does not publish.
C7_Witness ==
    /\ Handler = "load_object"
    /\ detection_status[0] = Detecting
    /\ detection_status[1] = NoVideo
    /\ eye_video_loc[0] = VideoLoc(0)
    /\ Where("correlate_publish") = {}
    /\ pub_count = 0

\* C8: constructed with eye A complete and eye B not, the acknowledgment of
\* eye B's start emits no should_start for eye A and leaves eye A's loaded
\* records in the store.
C8_CompletedEyeSurvivesAck ==
    [][\A a \in Eyes :
          (/\ Handler = "load_object"
           /\ trace[1].status[a] = Complete
           /\ trace[1].status[Other(a)] # Complete
           /\ eye_video_loc[Other(a)] # None
           /\ trace' # <<>>
           /\ trace'[1].op = "on_notify"
           /\ trace'[1].mode = "eye_process.started"
           /\ trace'[1].eye = Other(a))
          => /\ should_start'[a] = should_start[a]
             /\ detection_status'[a] = Complete
             /\ StoreSelect(pupil_data_store', a, "3d") =
                   StoreSelect(pupil_data_store, a, "3d")]_vars

\* C9: start_eye_process for an eye with no video, or with a video without
\* frames, sets that eye's status to the error string and does nothing else:
\* no should_start, no source path, the other eye and the store as they were.
C9_MissingVideoIsolated ==
    /\ \A e \in Eyes :
          video[e] # "ok" =>
              LET t == start_eye_process(Self, e)
              IN  /\ t.detection_status[e] = NoVideo
                  /\ t.detection_status[Other(e)] = detection_status[Other(e)]
                  /\ t.eye_video_loc = eye_video_loc
                  /\ t.eye_frame_num = eye_frame_num
                  /\ t.should_start = should_start
                  /\ t.should_stop = should_stop
                  /\ t.pupil_data_store = pupil_data_store
                  /\ t.pupil_positions = pupil_positions
                  /\ Len(t.trace) = 1
    /\ \A i \in Where("start_eye_process") :
          video[trace[i].eye] # "ok" =>
              /\ i < Len(trace) =>
                    /\ trace[i + 1].op # "eye_process.should_start"
                    /\ trace[i + 1].status[trace[i].eye] = NoVideo
                    /\ trace[i + 1].status[Other(trace[i].eye)] =
                          trace[i].status[Other(trace[i].eye)]
                    /\ trace[i + 1].locs = trace[i].locs
              /\ detection_status[trace[i].eye] = NoVideo
              /\ eye_video_loc[trace[i].eye] = None

\* A redetect with eye 0 detecting tried eye 1, whose video has no frames.
C9_Witness ==
    /\ Handler = "redetect"
    /\ video[1] = "empty"
    /\ WhereEye("start_eye_process", 1) # {}
    /\ detection_status[1] = NoVideo
    /\ detection_status[0] = Detecting
    /\ eye_video_loc[0] = VideoLoc(0)
    /\ should_start[1] = 0

\* C10: when the metadata file is absent or of another version, __init__
\* goes on from the default (no method, both eyes "unknown") and from nothing
\* of the file: both eyes get a start attempt whatever status the file held.
C10_MismatchResets ==
    [][(phase = "new" /\ phase' = "alive" /\
        (meta_file.kind = "absent" \/ meta_file.version # session_data_version))
       => /\ trace'[1].op = "load_object"
          /\ trace'[1].mode = Unset
          /\ trace'[1].status = Both(Unknown)
          /\ detection_method' = "3d"
          /\ \A e \in Eyes :
                /\ \E i \in DOMAIN trace' : /\ trace'[i].op = "start_eye_process"
                                            /\ trace'[i].eye = e
                /\ detection_status'[e] = (IF video[e] = "ok" THEN Detecting ELSE NoVideo)]_vars

\* The file is of the version before, with method "2d" and both eyes
\* "complete"; both eyes were started all the same.
C10_Witness ==
    /\ Handler = "load_object"
    /\ meta_file.kind = "ok"
    /\ meta_file.version # session_data_version
    /\ meta_file.detection_method = "2d"
    /\ meta_file.detection_status = Both(Complete)
    /\ detection_status = Both(Detecting)
    /\ detection_method = "3d"

\* C11: with the metadata or the results unreadable, construction goes through
\* and raises nothing; unreadable metadata count as no prior session (both
\* eyes "unknown", each given a start attempt) and unreadable results as an
\* empty store.
C11_CorruptRecoverable ==
    [][(/\ phase = "new"
        /\ phase' # "new"
        /\ (meta_file.kind = "corrupt" \/ ~data_file_ok))
       => /\ phase' = "alive"
          /\ \A i \in DOMAIN trace' : trace'[i].op # "CorruptData"
          /\ meta_file.kind = "corrupt" =>
                /\ trace'[1].status = Both(Unknown)
                /\ \A e \in Eyes : \E i \in DOMAIN trace' :
                      trace'[i].op = "start_eye_process" /\ trace'[i].eye = e
          /\ ~data_file_ok => eye_frame_num' \in [Eyes -> {0, MaxTs}]]_vars

\* C12: when the queue holds a datum whose id is not the eye of its topic,
\* recent_events ends with an AssertionError at that message: the store holds
\* what the messages before it put there and nothing of it or of what follows
\* it, which stays queued; the progress indicator is not refreshed.
Misattributed == {i \in DOMAIN bus : bus[i].kind = "pupil" /\ bus[i].topic # bus[i].id}

C12_MismatchIsFatal ==
    [][(/\ phase = "alive"
        /\ Misattributed # {}
        /\ trace' # <<>>
        /\ trace'[1].op = "recent_events")
       => LET k == CHOOSE i \in Misattributed : \A j \in Misattributed : i <= j
              before == drain([Self EXCEPT !.bus = SubSeq(bus, 1, k - 1)])
          IN  /\ trace'[Len(trace')].op = "AssertionError"
              /\ trace'[Len(trace') - 1].op = "recv"
              /\ trace'[Len(trace') - 1].eye = bus[k].topic
              /\ pupil_data_store' = before.pupil_data_store
              /\ k = 1 => pupil_data_store' = pupil_data_store
              /\ bus' = SubSeq(bus, k + 1, Len(bus))
              /\ pupil_positions' = before.pupil_positions
              /\ indicator_stop' = indicator_stop]_vars

\* recent_events has raised on a misattributed datum of a detecting eye, and
\* the store is as empty as before.
C12_Witness ==
    /\ Handler = "recent_events"
    /\ trace[Len(trace)].op = "AssertionError"
    /\ trace[Len(trace) - 1].op = "recv"
    /\ pupil_data_store = <<>>
    /\ \E e \in Eyes : detection_status[e] = Detecting /\ running[e]

\* C13: detection_progress is a fraction between 0 and 1 in every state: 0
\* when the expected frame counts sum to 0, and 1 when the store holds more
\* records of the current method than frames are expected; so is the value
\* recent_events last gave the indicator.
C13_ProgressInUnitInterval ==
    LET p == detection_progress(Self)
        total == eye_frame_num[0] + eye_frame_num[1]
        n == Len(StoreSelectMethod(pupil_data_store, detection_method))
    IN  /\ p[2] > 0 /\ 0 <= p[1] /\ p[1] <= p[2]
        /\ total = 0 => p[1] = 0
        /\ (total # 0 /\ n > total) => p[1] = p[2]
        /\ indicator_stop[2] > 0
        /\ 0 <= indicator_stop[1]
        /\ indicator_stop[1] <= indicator_stop[2]

\* One frame is expected and the store holds two records; recent_events has
\* set the indicator to 1.
C13_Witness ==
    /\ Handler = "recent_events"
    /\ eye_frame_num[0] + eye_frame_num[1] = 1
    /\ Len(StoreSelectMethod(pupil_data_store, detection_method)) = 2
    /\ indicator_stop = <<1, 1>>

\* C14: g_pool.pupil_positions changes only in a handler that installs a
\* snapshot (correlate_publish or redetect, each followed by announce_new); an
\* append to the store, or its clearing, is not seen through a snapshot
\* installed before.
C14_SnapshotIsolated ==
    [][pupil_positions' # pupil_positions
       => \E i \in DOMAIN trace' :
              /\ trace'[i].op \in {"correlate_publish", "redetect"}
              /\ trace'[i + 1].op = "announce_new"]_vars

\* A snapshot with a record was published; recent_events has since appended
\* to the store, and the snapshot is as it was.
C14_Witness ==
    /\ Handler = "recent_events"
    /\ Where("correlate_publish") = {}
    /\ pupil_positions # <<>>
    /\ Len(pupil_data_store) > Len(pupil_positions)
    /\ ~aliased

\* C15: in any state stop_eye_process(eye_id) emits one should_stop for that
\* eye and leaves its source path None; both statuses, the other eye's path
\* and the store stay as they are.  A second call emits once more and leaves
\* the attributes as the first call left them.  The same holds of every call
\* recent_events and cleanup make.
Attributes(s) ==
    <<s.detection_method, s.detection_status, s.eye_video_loc, s.eye_frame_num,
      s.pupil_data_store, s.pupil_positions, s.detection_paused, s.data_sub,
      s.indicator_stop, s.meta_file, s.data_file, s.should_start>>

C15_StopIdempotent ==
    /\ \A e \in Eyes :
          LET once == stop_eye_process(Self, e)
              twice == stop_eye_process(once, e)
          IN  /\ once.eye_video_loc[e] = None
              /\ once.eye_video_loc[Other(e)] = eye_video_loc[Other(e)]
              /\ once.detection_status = detection_status
              /\ once.pupil_data_store = pupil_data_store
              /\ once.pupil_positions = pupil_positions
              /\ once.should_start = should_start
              /\ once.should_stop = [should_stop EXCEPT ![e] = @ + 1]
              /\ [i \in DOMAIN once.trace |-> <<once.trace[i].op, once.trace[i].eye>>]
                    = <<(<<"eye_process.should_stop", e>>)>>
              /\ Attributes(twice) = Attributes(once)
              /\ twice.should_stop = [should_stop EXCEPT ![e] = @ + 2]
              /\ Len(twice.trace) = 2
    /\ \A i \in Where("eye_process.should_stop") :
          /\ eye_video_loc[trace[i].eye] = None
          /\ i < Len(trace) =>
                /\ trace[i + 1].locs = [trace[i].locs EXCEPT ![trace[i].eye] = None]
                /\ trace[i + 1].status = trace[i].status

\* cleanup has stopped eye 0, which had finished before and had no source
\* path any more, and eye 1, which was detecting.
C15_Witness ==
    /\ Handler = "cleanup"
    /\ trace[1].locs[0] = None
    /\ trace[1].status[0] = Complete
    /\ trace[1].locs[1] = VideoLoc(1)
    /\ WhereEye("eye_process.should_stop", 0) # {}
    /\ should_stop[0] > 0
    /\ eye_video_loc = Both(None)
    /\ detection_status[1] = Detecting

\* C16: setting detection_paused sends, for each eye with a source path, one
\* request addressed to that path, "file_source.should_pause" when pausing and
\* "file_source.should_play" when resuming, and nothing else; no status, no
\* source path, neither the store nor the published set changes.
C16_PauseTogglesActiveEyes ==
    [][(trace' # <<>> /\ trace'[1].op = "detection_paused=")
       => LET subject == IF detection_paused' THEN "file_source.should_pause"
                                              ELSE "file_source.should_play"
              sent == [i \in 1..(Len(trace') - 1) |->
                          <<trace'[i + 1].op, trace'[i + 1].path>>]
              active == SelectSeq(<<0, 1>>, LAMBDA e : eye_video_loc[e] # None)
          IN  /\ sent = [i \in DOMAIN active |-> <<subject, eye_video_loc[active[i]]>>]
              /\ \A e \in Eyes : eye_video_loc[e] # None => eye_video_loc[e] = VideoLoc(e)
              /\ detection_status' = detection_status
              /\ eye_video_loc' = eye_video_loc
              /\ eye_frame_num' = eye_frame_num
              /\ pupil_data_store' = pupil_data_store
              /\ pupil_positions' = pupil_positions
              /\ should_start' = should_start
              /\ should_stop' = should_stop
              /\ bus' = bus]_vars

\* Paused while eye 0 was detecting and eye 1 had finished: one should_pause,
\* for eye 0's video.
C16_Witness ==
    /\ Handler = "detection_paused="
    /\ detection_paused
    /\ eye_video_loc[0] = VideoLoc(0)
    /\ eye_video_loc[1] = None
    /\ detection_status[1] = Complete
    /\ Len(trace) = 2
    /\ trace[2].op = "file_source.should_pause"
    /\ trace[2].path = VideoLoc(0)

\* C18: whenever recent_events calls correlate_publish no eye is
\* "Detecting...": each is "complete" or carries the error status.
C18_PublishOnlyWhenAllComplete ==
    Handler = "recent_events" =>
        \A i \in Where("correlate_publish") :
            \A e \in Eyes : trace[i].status[e] \in {Complete, NoVideo}

\* C19: between operations, an eye with a source path is "Detecting...", and
\* the path is the one of its own video; an eye that is "complete", "unknown"
\* or in error has no source path.
C19_SourceImpliesDetecting ==
    \A e \in Eyes :
        /\ eye_video_loc[e] # None =>
              detection_status[e] = Detecting /\ eye_video_loc[e] = VideoLoc(e)
        /\ detection_status[e] \in {Complete, Unknown, NoVideo} => eye_video_loc[e] = None

\* Eye 0 is detecting from its video; eye 1 has finished, and recent_events
\* has cleared its source path.
C19_Witness ==
    /\ Handler = "recent_events"
    /\ WhereEye("complete", 1) # {}
    /\ eye_video_loc[0] = VideoLoc(0)
    /\ detection_status[0] = Detecting
    /\ eye_video_loc[1] = None
    /\ detection_status[1] = Complete

\* What the claims about a session left to itself assume: the host keeps
\* calling recent_events, which leaves the queue empty; every should_start is
\* acknowledged; an eye that is "Detecting..." gets the video_finished of its
\* recorded source queued.
Ticks == []<>(Handler = "recent_events" /\ bus = <<>>)
Acks == \A e \in Eyes : []<>(should_start[e] = 0)
Queued(e) == \E i \in DOMAIN bus : bus[i].source_path = VideoLoc(e)
Finishes ==
    \A e \in Eyes : []<>(detection_status[e] # Detecting \/
                         (Queued(e) /\ eye_video_loc[e] = VideoLoc(e)))

\* C17: in such a session a state is reached in which no eye has a source
\* path, every eye with a usable video is "complete", and the records of the
\* store are the published set.
AllComplete ==
    /\ phase = "alive"
    /\ eye_video_loc = Both(None)
    /\ \A e \in Eyes : video[e] = "ok" => detection_status[e] = Complete
    /\ pub_count > 0
    /\ pupil_positions = pupil_data_store

C17_EventuallyAllComplete == (Ticks /\ Acks /\ Finishes) => <>AllComplete

\* C20: in such a session on_notify emits a should_start only finitely often:
\* from some point on no acknowledgment restarts an eye.
Restarted ==
    /\ Handler = "on_notify"
    /\ Where("eye_process.should_start") # {}

C20_RestartsEnd == (Ticks /\ Acks /\ Finishes) => <>[](~Restarted)
====
